---- MODULE Spec2Model ----
(***************************************************************************)
(* Model of rag_pi's main.py: a Streamlit session that ingests uploaded    *)
(* PDF documents (stage -> load -> split -> embed/index) and answers       *)
(* questions through a conversational retrieval chain.                     *)
(*                                                                         *)
(* State: the session (st.session_state.messages / .retriever), the        *)
(* staging directory TMP_DIR, the named Pinecone index, and a record       *)
(* `last` of what the most recent handler did (its inputs, the values it   *)
(* computed, the st.* reports it made and the external calls it issued,    *)
(* in order).  The local Chroma directory is written and never read back   *)
(* by the program; the writes to it appear in the calls.                   *)
(***************************************************************************)
EXTENDS Naturals, Sequences, FiniteSets

VARIABLES messages, retriever, tmpDir, index, last

vars == <<messages, retriever, tmpDir, index, last>>

---------------------------------------------------------------------------
(* Bounds of the model *)

\* names available to tempfile.NamedTemporaryFile in TMP_DIR
MaxFiles == 2
\* files uploaded in one run of the uploader widget
MaxUpload == 2
\* turns the chat history may hold
MaxTurns == 2

---------------------------------------------------------------------------
(* Program constants *)

\* dimension=1536 of pc.create_index and of the check on index_info.dimension
EmbeddingDimension == 1536
\* search_kwargs={'k': 7} of the Chroma retriever
LocalTopK == 7
\* search_kwargs={'k': 2} of the Pinecone retriever
CloudTopK == 2

\* The names the module binds at import time (lines 1-25).  `time` is not
\* among them: the only `import time` of the file is inside a comment.
ModuleNames ==
    {"os", "tempfile", "Path", "OpenAIEmbeddings", "Chroma", "Pinecone", "pvs",
     "PineconeVectorStore", "ServerlessSpec", "DirectoryLoader",
     "CharacterTextSplitter", "ConversationalRetrievalChain", "ChatOpenAI", "st"}

---------------------------------------------------------------------------
(* Inputs *)

\* What an uploaded PDF turns out to be: "text" has extractable text,
\* "blank" loads as a document with no text (the splitter makes no chunk of it).
Kinds == {"text", "blank"}

FileNames == 1..MaxFiles

Queries == {"q1", "q2"}

Answers == {"a1"}

\* Dimensions an index that exists before the session may have.
Dimensions == {EmbeddingDimension, 768}

\* st.session_state.source_docs: the uploaded files, in order
Uploads == UNION {[1..n -> Kinds] : n \in 0..MaxUpload}

\* The outcome of the external services during one handler.  A handler stops
\* calling out at the first call that raises, so one fault at most is drawn.
AllEnvs ==
    [loader : BOOLEAN,      \* DirectoryLoader.load() works
     unlink : BOOLEAN,      \* Path.unlink() works
     openai : BOOLEAN,      \* the embedding / chat endpoints answer
     pinecone : BOOLEAN,    \* the Pinecone control plane answers
     ready : BOOLEAN]       \* a created index is ready when the wait is over

Faults(e) ==
    {x \in {"loader", "unlink", "openai", "pinecone", "ready"} : ~e[x]}

Envs == {e \in AllEnvs : Cardinality(Faults(e)) <= 1}

---------------------------------------------------------------------------
(* Values *)

None == [kind |-> "None", backend |-> "", k |-> 0]

\* "retriever" not in st.session_state
Absent == [kind |-> "absent", backend |-> "", k |-> 0]

\* vectordb.as_retriever(search_kwargs={'k': k})
Retriever(backend, k) ==
    [kind |-> "retriever", backend |-> backend, k |-> k]

NoIndex == [exists |-> FALSE, dimension |-> 0, ready |-> FALSE, entries |-> {}]

RECURSIVE SeqToSet(_)
SeqToSet(s) == IF s = <<>> THEN {} ELSE {Head(s)} \cup SeqToSet(Tail(s))

---------------------------------------------------------------------------
(* load_documents, split_documents *)

\* A function's outcome: the value it returns, the st.* reports it makes and
\* the external calls it issues, both in order.

load_documents(dir, env) ==
    IF dir = {}
    THEN [documents |-> {},
          reports |-> <<"No documents found in the temporary directory.">>,
          trace |-> <<>>]
    ELSE IF ~env.loader
    THEN \* loader.load() raises: except branch
         [documents |-> {},
          reports |-> <<"Error loading documents">>,
          trace |-> <<"DirectoryLoader.load">>]
    ELSE LET documents == dir     \* glob '**/*.pdf': every staged file
         IN [documents |-> documents,
             reports |-> IF documents = {}
                         THEN <<"Documents could not be loaded.">>
                         ELSE <<"Loaded documents">>,
             trace |-> <<"DirectoryLoader.load">>]

\* A chunk is named by the file it comes from; a blank document gives none.
split_documents(documents) ==
    IF documents = {}
    THEN [texts |-> {}, reports |-> <<"No documents found to split.">>]
    ELSE LET texts == {d.name : d \in {x \in documents : x.kind = "text"}}
         IN [texts |-> texts,
             reports |-> IF texts = {}
                         THEN <<"Splitting failed. No text chunks created.">>
                         ELSE <<"Created text chunks.">>]

---------------------------------------------------------------------------
(* embeddings_on_local_vectordb *)

embeddings_on_local_vectordb(texts, env) ==
    IF texts = {}
    THEN [retriever |-> None,
          reports |-> <<"No text chunks were created. Check document splitting.">>,
          trace |-> <<>>]
    ELSE IF ~env.openai
    THEN \* Chroma.from_documents raises while embedding: except branch
         [retriever |-> None,
          reports |-> <<"Error creating local vector store">>,
          trace |-> <<"OpenAIEmbeddings", "Chroma.from_documents">>]
    ELSE [retriever |-> Retriever("local", LocalTopK),
          reports |-> <<"Retriever successfully created!">>,
          trace |-> <<"OpenAIEmbeddings", "Chroma.from_documents",
                      "vectordb.persist", "as_retriever">>]

---------------------------------------------------------------------------
(* embeddings_on_pinecone *)

\* pc.create_index(name, dimension=1536, metric='cosine', spec): the service
\* refuses to create a name that exists (409 conflict), and the client raises.
pc_create_index(idx, env) ==
    IF ~env.pinecone \/ idx.exists
    THEN [raised |-> TRUE, index |-> idx]
    ELSE [raised |-> FALSE,
          index |-> [exists |-> TRUE, dimension |-> EmbeddingDimension,
                     ready |-> env.ready, entries |-> {}]]

\* the except branch of embeddings_on_pinecone
pinecone_except(idx, reports, trace) ==
    [retriever |-> None, index |-> idx,
     reports |-> reports \o <<"Error creating Pinecone vector store">>,
     trace |-> trace]

\* PineconeVectorStore.from_documents and what follows it
pinecone_from_documents(texts, idx, env, reports, trace) ==
    LET t == trace \o <<"OpenAIEmbeddings", "PineconeVectorStore.from_documents">>
    IN IF ~env.openai \/ ~idx.ready
       THEN pinecone_except(idx, reports, t)
       ELSE [retriever |-> Retriever("pinecone", CloudTopK),
             index |-> [idx EXCEPT !.entries = @ \cup texts],
             reports |-> reports \o <<"Pinecone retriever successfully created!">>,
             trace |-> t \o <<"as_retriever">>]

\* embeddings_on_pinecone with the emptiness check left out: the client is
\* made and the index requested whatever the chunks are
embeddings_on_pinecone_unchecked(texts, idx, env) ==
    LET r1 == <<"Creating new index with correct dimensions...">>
        t1 == <<"Pinecone", "create_index">>
        created == pc_create_index(idx, env)
    IN IF created.raised
       THEN pinecone_except(idx, r1, t1)
       ELSE IF "time" \notin ModuleNames
       THEN pinecone_except(created.index, r1, t1)
       ELSE LET t2 == t1 \o <<"time.sleep", "describe_index">>
            IN IF created.index.dimension # EmbeddingDimension
               THEN [retriever |-> None, index |-> created.index,
                     reports |-> r1 \o <<"Index dimension mismatch.">>,
                     trace |-> t2]
               ELSE pinecone_from_documents(texts, created.index, env, r1, t2)

embeddings_on_pinecone(texts, idx, env) ==
    IF texts = {}
    THEN [retriever |-> None, index |-> idx,
          reports |-> <<"No text chunks received for Pinecone vectorization.">>,
          trace |-> <<>>]
    ELSE LET r1 == <<"Creating new index with correct dimensions...">>
             t1 == <<"Pinecone", "create_index">>
             created == pc_create_index(idx, env)
         IN IF created.raised
            THEN pinecone_except(idx, r1, t1)
            ELSE IF "time" \notin ModuleNames
            THEN \* time.sleep(5): NameError, caught by except Exception
                 pinecone_except(created.index, r1, t1)
            ELSE LET t2 == t1 \o <<"time.sleep", "describe_index">>
                 IN IF created.index.dimension # EmbeddingDimension
                    THEN [retriever |-> None, index |-> created.index,
                          reports |-> r1 \o <<"Index dimension mismatch.">>,
                          trace |-> t2]
                    ELSE pinecone_from_documents(texts, created.index, env, r1, t2)

---------------------------------------------------------------------------
(* query_llm *)

\* query_llm with the check of the retriever left out
query_llm_unchecked(rtr, query, history, env, answer) ==
    LET t == <<"ChatOpenAI", "ConversationalRetrievalChain.from_llm", "qa_chain">>
    IN IF ~env.openai
       THEN [response |-> "I encountered an error processing your question.",
             messages |-> history, answered |-> FALSE,
             reports |-> <<"Error processing query">>,
             trace |-> t]
       ELSE [response |-> answer,
             messages |-> Append(history, <<query, answer>>),
             answered |-> TRUE,
             reports |-> <<>>,
             trace |-> t]

\* query_llm with the history updated before the chain is called, so that a
\* failed query leaves its turn behind
query_llm_append_early(rtr, query, history, env, answer) ==
    IF rtr = None
    THEN [response |-> "Error: The retriever is not initialized.",
          messages |-> history, answered |-> FALSE,
          reports |-> <<"Error: The retriever is None.">>,
          trace |-> <<>>]
    ELSE LET t == <<"ChatOpenAI", "ConversationalRetrievalChain.from_llm", "qa_chain">>
         IN IF ~env.openai
            THEN [response |-> "I encountered an error processing your question.",
                  messages |-> Append(history, <<query, "">>),
                  answered |-> FALSE,
                  reports |-> <<"Error processing query">>,
                  trace |-> t]
            ELSE [response |-> answer,
                  messages |-> Append(history, <<query, answer>>),
                  answered |-> TRUE,
                  reports |-> <<>>,
                  trace |-> t]

query_llm(rtr, query, history, env, answer) ==
    IF rtr = None
    THEN [response |-> "Error: The retriever is not initialized.",
          messages |-> history, answered |-> FALSE,
          reports |-> <<"Error: The retriever is None.">>,
          trace |-> <<>>]
    ELSE LET t == <<"ChatOpenAI", "ConversationalRetrievalChain.from_llm", "qa_chain">>
         IN IF ~env.openai
            THEN \* the chain raises: except branch
                 [response |-> "I encountered an error processing your question.",
                  messages |-> history, answered |-> FALSE,
                  reports |-> <<"Error processing query">>,
                  trace |-> t]
            ELSE [response |-> answer,
                  messages |-> Append(history, <<query, answer>>),
                  answered |-> TRUE,
                  reports |-> <<>>,
                  trace |-> t]

---------------------------------------------------------------------------
(* What the last handler did *)

Idle ==
    [op |-> "init", outcome |-> "", pinecone_db |-> FALSE,
     staged |-> {}, documents |-> {}, texts |-> {},
     built |-> FALSE, result |-> None, stored |-> FALSE,
     existed |-> FALSE, servicesOk |-> FALSE,
     query |-> "", response |-> "", answered |-> FALSE,
     reports |-> <<>>, trace |-> <<>>]

---------------------------------------------------------------------------
(* process_documents *)

Names(dir) == {f.name : f \in dir}

\* tempfile.NamedTemporaryFile(delete=False, dir=TMP_DIR, suffix='.pdf'): a
\* name no file of the directory has
FreshName(dir) ==
    CHOOSE n \in FileNames \ Names(dir) : \A m \in FileNames \ Names(dir) : n <= m

\* lines 322-328: the files written for source_docs into a directory holding dir
RECURSIVE Stage(_, _)
Stage(dir, source_docs) ==
    IF source_docs = <<>>
    THEN {}
    ELSE LET f == [name |-> FreshName(dir), kind |-> Head(source_docs)]
         IN {f} \cup Stage(dir \cup {f}, Tail(source_docs))

\* lines 349-352: the build of the selected backend, as one outcome record
build(pinecone_db, texts, idx, env) ==
    IF ~pinecone_db
    THEN LET b == embeddings_on_local_vectordb(texts, env)
         IN [retriever |-> b.retriever, index |-> idx,
             reports |-> b.reports, trace |-> b.trace]
    ELSE embeddings_on_pinecone(texts, idx, env)

\* lines 303-317: the three validations, each a return before any work
process_documents_invalid(outcome, report) ==
    [retriever |-> retriever, tmpDir |-> tmpDir, index |-> index,
     last |-> [Idle EXCEPT !.op = "process_documents",
                           !.outcome = outcome,
                           !.reports = <<report>>]]

\* lines 319-376: the session and the stores after the callback, with the
\* record of the run
process_documents_try(pinecone_db, source_docs, env) ==
    LET staged == Stage(tmpDir, source_docs)
        dir == tmpDir \cup staged
        loaded == load_documents(dir, env)
        run == [Idle EXCEPT !.op = "process_documents",
                            !.pinecone_db = pinecone_db,
                            !.staged = Names(staged),
                            !.documents = Names(loaded.documents),
                            !.reports = loaded.reports,
                            !.trace = loaded.trace]
    IN IF loaded.documents = {}
       THEN \* lines 332-334: return, the staged files stay
            [retriever |-> retriever, tmpDir |-> dir, index |-> index,
             last |-> [run EXCEPT !.outcome = "load_failed",
                                  !.reports = @ \o <<"Document loading failed.">>]]
       ELSE IF ~env.unlink
       THEN \* lines 337-338 raise: except branch of process_documents
            [retriever |-> retriever, tmpDir |-> dir, index |-> index,
             last |-> [run EXCEPT !.outcome = "exception",
                                  !.reports = @ \o <<"An error occurred">>]]
       ELSE
       LET split == split_documents(loaded.documents)
           r2 == run.reports \o split.reports \o
                 (IF split.texts = {}
                  THEN <<"Text splitting failed. No text chunks generated.">>
                  ELSE <<"Generated text chunks.">>)
           b == build(pinecone_db, split.texts, index, env)
       IN [retriever |-> b.retriever,       \* line 364
           tmpDir |-> {},                   \* lines 337-338
           index |-> b.index,
           last |-> [run EXCEPT
                       !.outcome = "done",
                       !.texts = split.texts,
                       !.built = TRUE,
                       !.result = b.retriever,
                       !.stored = TRUE,
                       !.existed = pinecone_db /\ index.exists,
                       !.servicesOk = pinecone_db /\ Faults(env) = {},
                       !.reports = r2 \o b.reports \o
                                   <<"Documents processed successfully!">>,
                       !.trace = @ \o b.trace]]

process_documents_set(r) ==
    /\ retriever' = r.retriever
    /\ tmpDir' = r.tmpDir
    /\ index' = r.index
    /\ last' = r.last
    /\ UNCHANGED messages

\* The "Process Documents" button: on_click=process_documents.  The widgets'
\* values are the inputs: the keys typed into the sidebar, the backend toggle
\* and the uploaded files.
process_documents ==
    \/ \* not st.session_state.openai_api_key
       process_documents_set(
           process_documents_invalid("no_openai_key",
                                     "Please enter your OpenAI API key."))
    \/ \* pinecone_db and a Pinecone credential missing
       process_documents_set(
           process_documents_invalid("no_pinecone_credentials",
                                     "Please provide all Pinecone credentials."))
    \/ \* not st.session_state.source_docs
       process_documents_set(
           process_documents_invalid("no_source_docs",
                                     "Please upload at least one document."))
    \/ \E pinecone_db \in BOOLEAN, source_docs \in Uploads \ {<<>>}, env \in Envs :
          /\ Cardinality(tmpDir) + Len(source_docs) <= MaxFiles
          /\ process_documents_set(process_documents_try(pinecone_db, source_docs, env))

---------------------------------------------------------------------------
(* main *)

\* lines 398-409: one rerun of the script with a question typed into
\* st.chat_input()
main_run(query, env, answer) ==
    LET run == [Idle EXCEPT !.op = "main", !.query = query]
    IN IF retriever = Absent
       THEN \* lines 399-401
            [messages |-> messages,
             last |-> [run EXCEPT !.outcome = "no_retriever",
                                  !.reports = <<"Please process documents first.">>]]
       ELSE LET q == query_llm(retriever, query, messages, env, answer)
            IN [messages |-> q.messages,
                last |-> [run EXCEPT !.outcome = "queried",
                                     !.response = q.response,
                                     !.answered = q.answered,
                                     !.reports = q.reports,
                                     !.trace = q.trace]]

main ==
    \E query \in Queries, env \in Envs, answer \in Answers :
        LET r == main_run(query, env, answer)
        IN /\ Len(r.messages) <= MaxTurns
           /\ messages' = r.messages
           /\ last' = r.last
           /\ UNCHANGED <<retriever, tmpDir, index>>

---------------------------------------------------------------------------
(* The session *)

\* The state after the first run of the script: messages = [] (lines 383-384),
\* no retriever, the directories just made (lines 32-33); the named index is
\* whatever the Pinecone project holds.
Init ==
    /\ messages = <<>>
    /\ retriever = Absent
    /\ tmpDir = {}
    /\ index \in {NoIndex} \cup
                 {[exists |-> TRUE, dimension |-> d, ready |-> TRUE, entries |-> {}] :
                    d \in Dimensions}
    /\ last = Idle

Next == process_documents \/ main

Spec == Init /\ [][Next]_vars

---------------------------------------------------------------------------
(* Properties *)

Calls == SeqToSet(last.trace)

Reported == SeqToSet(last.reports)

\* the calls that construct or run the retrieval chain and its language model
LLMCalls == {"ChatOpenAI", "ConversationalRetrievalChain.from_llm", "qa_chain"}

\* the calls a build makes to the store client, the embedding capability and
\* the index
BuildCalls ==
    {"Pinecone", "create_index", "time.sleep", "describe_index", "OpenAIEmbeddings",
     "PineconeVectorStore.from_documents", "Chroma.from_documents",
     "vectordb.persist", "as_retriever"}

IsPrefix(s, t) == Len(s) <= Len(t) /\ SubSeq(t, 1, Len(s)) = s

\* a run of process_documents that reached the build of the cloud backend
\* with chunks to index
CloudBuild == last.built /\ last.pinecone_db /\ last.texts # {}

\* C1: a query submitted while the session holds no usable retriever (none
\* stored yet, or None stored by a failed ingestion) is rejected with a
\* report, is not answered, and makes no call to the chain or the language
\* model.
C1_NoRetrieverNoLLM ==
    (last.op = "main" /\ retriever \in {Absent, None}) =>
        /\ Calls \cap LLMCalls = {}
        /\ ~last.answered
        /\ last.reports # <<>>

\* C1 witness: a query was submitted after an ingestion stored None.
C1_Witness ==
    last.op = "main" /\ retriever = None /\ last.outcome = "queried"

\* C2: a run of process_documents in which load, split or the build gave
\* nothing stops there: no later step runs, success is not reported and
\* nothing is stored as the session's retriever; a retriever is stored only
\* when all three gave something.
C2_FailureHalts ==
    last.op = "process_documents" =>
        /\ (last.staged # {} /\ last.documents = {}) =>
               ~last.built /\ ~last.stored
               /\ "Documents processed successfully!" \notin Reported
        /\ (last.outcome = "done" /\ last.texts = {}) =>
               ~last.built /\ ~last.stored
               /\ "Documents processed successfully!" \notin Reported
        /\ (last.built /\ last.result = None) =>
               ~last.stored /\ "Documents processed successfully!" \notin Reported
        /\ last.stored =>
               last.documents # {} /\ last.texts # {} /\ last.result # None

FailedOp(l) ==
    \/ l.op = "process_documents" /\ ~(l.outcome = "done" /\ l.result # None)
    \/ l.op = "main" /\ ~l.answered

\* C3: an ingestion run or a query that fails leaves the retriever built by
\* an earlier successful ingestion, and the chat history, as they were.
C3_FailureKeepsSession ==
    [][(retriever.kind = "retriever" /\ FailedOp(last'))
          => (retriever' = retriever /\ messages' = messages)]_vars

\* C4: the chat history only grows at its end: every step leaves the old
\* history a prefix of the new one, an answered query appends exactly the turn
\* (query, answer), and every other step (a failed or rejected query, an
\* ingestion run) leaves the history as it was.
C4_HistoryAppendOnly ==
    [][/\ IsPrefix(messages, messages')
       /\ (last'.op = "main" /\ last'.answered) =>
              messages' = Append(messages, <<last'.query, last'.response>>)
       /\ ~(last'.op = "main" /\ last'.answered) => messages' = messages]_vars

\* C4 witness: an answered query whose turn was appended to a history that
\* already held one.
C4_Witness ==
    /\ last.op = "main" /\ last.answered
    /\ Len(messages) = 2
    /\ messages[2] = <<last.query, last.response>>

\* C5: a build (of either backend) handed no chunks returns None and makes no
\* call to the store client, the embedding capability or the index.
C5_EmptyChunksNoCalls ==
    (last.built /\ last.texts = {}) =>
        /\ last.result = None
        /\ Calls \cap BuildCalls = {}
        /\ index.entries = {}

\* C5 witness: the cloud build ran with no chunks (a document with no text).
C5_Witness ==
    last.built /\ last.texts = {} /\ last.pinecone_db /\ last.result = None

\* C6: the cloud build asks for the index to be created only when it does not
\* exist; when it exists with dimension 1536 and the services answer, no
\* creation is requested, the chunks are written and a retriever is returned.
C6_CreateOnlyIfAbsent ==
    CloudBuild =>
        /\ "create_index" \in Calls => ~last.existed
        /\ (last.existed /\ index.dimension = EmbeddingDimension /\ last.servicesOk) =>
               /\ "create_index" \notin Calls
               /\ last.result # None
               /\ last.texts \subseteq index.entries

\* C7: when the index exists with another dimension than 1536 (and the
\* services answer), the cloud build fails with the dimension-mismatch report,
\* not the generic failure report, and writes nothing.
C7_DimensionMismatch ==
    (CloudBuild /\ last.existed /\ index.dimension # EmbeddingDimension
       /\ last.servicesOk) =>
        /\ last.result = None
        /\ "Index dimension mismatch." \in Reported
        /\ "Error creating Pinecone vector store" \notin Reported
        /\ "PineconeVectorStore.from_documents" \notin Calls
        /\ index.entries = {}

\* C8: a cloud build that creates the index writes only to an index that is
\* ready; when the index is not ready at the end of the wait the build fails,
\* with an outcome that is neither the generic failure nor the dimension
\* mismatch, and writes nothing.
C8_WriteOnlyWhenReady ==
    (CloudBuild /\ ~last.existed /\ index.exists) =>
        /\ "PineconeVectorStore.from_documents" \in Calls => index.ready
        /\ ~index.ready =>
               /\ last.result = None
               /\ "Error creating Pinecone vector store" \notin Reported
               /\ "Index dimension mismatch." \notin Reported
               /\ index.entries = {}

\* C9: with the cloud backend, chunks to index, no index of that name and
\* every service answering, the build writes all the chunks and the run ends
\* with a retriever of k = 2 in the session.
C9_CloudBuildCompletes ==
    (CloudBuild /\ ~last.existed /\ last.servicesOk) =>
        /\ last.result = Retriever("pinecone", CloudTopK)
        /\ retriever = last.result
        /\ last.texts \subseteq index.entries

\* C10: when process_documents has returned, none of the files it staged is
\* left in the staging directory, and the documents it loaded are exactly the
\* files uploaded in that run.
C10_StagingCleaned ==
    (last.op = "process_documents" /\ last.staged # {}) =>
        /\ Names(tmpDir) \cap last.staged = {}
        /\ last.documents # {} => last.documents = last.staged

====
